---- MODULE Spec2Model ----
(***************************************************************************)
(* Model of the chart-app of jhe-smart-demo: the dual-provider OAuth 2.0   *)
(* authorization-code flow with PKCE (src/chart-app/app/app.py), its       *)
(* in-memory session store, the alru_cache'd discovery lookup and the      *)
(* asyncio interleaving of the request handlers at their await points.     *)
(***************************************************************************)
EXTENDS Naturals, Sequences, FiniteSets, TLC

(* ------------------------------ bounds --------------------------------- *)
\* request-handling tasks that may be in flight at the same time
MaxProc == 2
\* authorization attempts (each draws one fresh state token and verifier)
MaxTok == 2

(* ------------------------------ domains -------------------------------- *)
Visitors == {"v1", "v2"}
Procs == 1 .. MaxProc

\* app.py:90 and app.py:139: the only identifier _get_session ever uses
SESSION_ID == "session_id"
NoId == "none"

\* issuer base URIs a /launch request may name (iss), as character sequences
Issuers == {<<"b">>, <<"b", "/">>}

\* the base URIs of two different issuers a /launch request may name
TwoIssuers == {<<"a">>, <<"b">>}

\* str.rstrip("/") (app.py:289, app.py:359)
RECURSIVE rstrip(_)
rstrip(s) ==
    IF s = <<>> THEN s
    ELSE IF s[Len(s)] = "/" THEN rstrip(SubSeq(s, 1, Len(s) - 1))
    ELSE s

\* f"{settings.jhe_public_url}/o" (app.py:421, app.py:498)
JheKey == <<"j", "/", "o">>

\* every argument _get_openid_config can be called with
DiscKeys ==
    Issuers \cup TwoIssuers \cup {rstrip(i) : i \in Issuers} \cup {<<>>, JheKey}

\* the provider a discovery document fetched for key k describes: the URL
\* fetched is f"{k.rstrip('/')}/.well-known/openid-configuration" (app.py:359)
Config(k) == rstrip(k)

\* a base URI without scheme and host cannot be fetched at all (app.py:361,371)
Fetchable(k) == rstrip(k) # <<>>

\* the keys of a discovery document that the handlers read (app.py:385, 444)
Endpoints == {"authorization_endpoint", "token_endpoint"}

\* the values r.json() of a discovery response may return (app.py:376), each
\* as the set of those keys it has; an empty object, a list or a string has
\* none of them
Documents == SUBSET Endpoints

\* alru_cache's maxsize (app.py:356: the decorator is used bare, which
\* leaves async_lru's default): the entries the cache holds at most
maxsize == 128

\* an entry of alru_cache for one key: none, a fetch in flight at its first
\* GET (inflight) or at its second (fallback), or the document cached (ok).
\* use: how many entries of the cache were used after this one, those of
\* keys outside DiscKeys included (0 for the one used last).
NoEntry == [st |-> "none", doc |-> {}, use |-> 0]
InFlight == [st |-> "inflight", doc |-> {}, use |-> 0]
Cached(doc) == [st |-> "ok", doc |-> doc, use |-> 0]

Codes == {"", "c"}
Errors == {"", "e"}

(* --------------------------- session records --------------------------- *)
NoTok == [iss |-> <<>>, id |-> 0]
\* A JSON value r.json() may return for a token response (app.py:475), which
\* /callback stores as the launch context (app.py:336): an object or, for
\* every value that is no object, an array. `has` holds the keys of an object
\* that the handlers read ("other" for an object that has keys but none of
\* them); for an array, "other" if it has elements. access_token is the
\* value of that key (NoTok: the empty string, or no such key).
Json(type, has, access_token) ==
    [type |-> type, has |-> has, access_token |-> access_token]

\* fhir_context = {} (app.py:106): no access_token, no patient
EmptyCtx == Json("object", {}, NoTok)

\* bool(x) of a JSON value (app.py:195, 259)
Truthy(x) == x.has # {}

\* x[k] returns: x is an object with the key k (app.py:196, 202, 261, 337,
\* 507); otherwise it raises KeyError or TypeError
HasKey(x, k) == x.type = "object" /\ k \in x.has

\* SessionState() (app.py:93-112)
SessionState ==
    [fhir_token |-> NoTok, fhir_api |-> <<>>, fhir_oauth_state |-> 0,
     fhir_code_verifier |-> 0, fhir_context |-> EmptyCtx,
     jhe_token |-> NoTok, jhe_oauth_state |-> 0, jhe_code_verifier |-> 0]

\* the S256 code challenge of a verifier (app.py:347-353): injective, and
\* never equal to a verifier
S256(verifier) == <<"S256", verifier>>

\* the JSON body of a successful token response of provider iss to the
\* request that carried state id
TokenResponseOf(iss, id) ==
    Json("object", {"access_token", "patient"}, [iss |-> iss, id |-> id])

(* ------------------------------ state ---------------------------------- *)
VARIABLES
    sessions,   \* _sessions: the dict session id -> SessionState object
    cookie,     \* per visitor: request.session.get(SESSION_KEY) as the browser holds it
    cache,      \* alru_cache of _get_openid_config: key -> its entry
    procs,      \* the request tasks and their local variables
    ntok,       \* number of state tokens drawn so far
    accepted,   \* per state token: how many callbacks passed validation with it
    revealed,   \* per state token an authorization redirect has carried:
                \* the issuer whose authorization endpoint the redirect names
    owner,      \* per stored record: the visitor whose request created it
    out         \* the response sent by the last step (NoOut: none)

vars == <<sessions, cookie, cache, procs, ntok, accepted, revealed, owner, out>>

\* A task's reference to its session object is the id under which _sessions
\* holds that object, or Detached once _sessions has dropped it. A dropped
\* object never returns to the dict, and only the thread of /chart.json reads
\* its object after the step in which it got it (app.py:256-257): that task
\* keeps the fields of a dropped object in obj. With MaxProc = 2 the thread
\* and the /logout that drops its record fill both task slots, so no task
\* that writes to the object is in flight with it: what tasks write to a
\* dropped object is left out.
Detached == "detached"

\* A task is idle (its slot is free), or suspended in the await of
\* _get_openid_config with the fetch running (disc_wait), with the fetch
\* ended and its wake-up scheduled (disc_ok, disc_fail), with a task that
\* waited for the same fetch before it already resumed (wake_ok, wake_fail),
\* or suspended in the token POST (tok_wait) or in a GET of / (get1_wait,
\* get2_wait), or inside the synchronous jhe.get_user() (user_wait), which
\* keeps the event loop's thread; a plain function is handed to a worker
\* thread (thread), whose result (res) waits for the event loop to send it
\* (thread_done); the thread of /chart.json stops in between, holding its
\* session object, before it reads the object's fhir_context (thread_fhir,
\* then kept in fhir) and before it reads its jhe_token (thread_jhe).
\* sid0: the session id in the request's cookie; sid: the one
\* in its session dict, which the response sends back. turn:
\* how many tasks waited for the fetch when this one joined them. doc: the
\* discovery document the task got. tokstatus: the status the token endpoint
\* answered with. late: the request began while a later authorization
\* attempt of its provider was in flight on its session, whose pending state
\* was not empty.
IdleProc ==
    [pc |-> "idle", kind |-> "none", v |-> "none", sess |-> NoId,
     sid |-> NoId, sid0 |-> NoId, key |-> <<>>, turn |-> 0, att |-> 0,
     code |-> "", error |-> "", state |-> 0, check |-> 0, cv |-> 0,
     replay |-> FALSE, hit |-> FALSE, doc |-> {}, late |-> FALSE,
     tokurl |-> <<>>, tokstatus |-> 0, res |-> "", fhir |-> EmptyCtx,
     obj |-> SessionState]

\* What the last step answered: the handler, the outcome (resp) and its HTTP
\* status, what the checks of _openid_token_callback say of the request's
\* parameters (want, "none" where no session was found), and for an
\* authorization redirect the state and code challenge in its URL. replay:
\* the state of the request had passed a callback's checks before; hit: the
\* discovery document was cached when the request began, and doc is that
\* document. disc: for a step of a discovery fetch, what its requests were
\* answered and what it did. tokstatus: the status of the token endpoint's
\* response that the step handled (0: none).
NoOut ==
    [kind |-> "none", resp |-> "none", status |-> 0, want |-> "none",
     replay |-> FALSE, hit |-> FALSE, doc |-> {}, urlstate |-> 0,
     urlchal |-> <<>>, disc |-> <<>>, tokstatus |-> 0]

Init ==
    /\ sessions = [i \in {} |-> SessionState]
    /\ cookie = [v \in Visitors |-> NoId]
    /\ cache = [k \in DiscKeys |-> NoEntry]
    /\ procs = [p \in Procs |-> IdleProc]
    /\ ntok = 0
    /\ accepted = [s \in 1 .. MaxTok |-> 0]
    /\ revealed = [s \in {} |-> <<>>]
    /\ owner = [i \in {} |-> NoId]
    /\ out = NoOut

(* ---------------------------- session store ---------------------------- *)
\* _sessions[i] = s
Put(ss, i, s) ==
    [j \in DOMAIN ss \cup {i} |-> IF j = i THEN s ELSE ss[j]]

\* _sessions.pop(i, None)
Pop(ss, i) ==
    [j \in DOMAIN ss \ {i} |-> ss[j]]

\* a lookup that registers a new record whenever make_new is set
GetSessionFresh(ss, sid, make_new) ==
    IF make_new
    THEN [obj |-> SESSION_ID, sessions |-> Put(ss, SESSION_ID, SessionState),
          sid |-> SESSION_ID]
    ELSE IF SESSION_ID \in DOMAIN ss
    THEN [obj |-> SESSION_ID, sessions |-> ss, sid |-> sid]
    ELSE [obj |-> NoId, sessions |-> ss, sid |-> sid]

\* _get_session(session, make_new) (app.py:126-151). sid is
\* session.get(SESSION_KEY); the result names the object returned (NoId:
\* None), the store and session.get(SESSION_KEY) after the call.
_get_session(ss, sid, make_new) ==
    LET session_id == SESSION_ID   \* app.py:139 overwrites what app.py:135 read
    IN  IF session_id \in DOMAIN ss
        THEN [obj |-> session_id, sessions |-> ss, sid |-> sid]
        ELSE IF make_new
        THEN [obj |-> session_id, sessions |-> Put(ss, session_id, SessionState),
              sid |-> session_id]
        ELSE [obj |-> NoId, sessions |-> ss, sid |-> sid]

\* SessionMiddleware's Set-Cookie on a response it sees: the session dict of
\* the request (sid) replaces the browser's, an emptied one clears it
SendCookie(ck, v, sid, sid0) ==
    IF sid # NoId THEN [ck EXCEPT ![v] = sid]
    ELSE IF sid0 # NoId THEN [ck EXCEPT ![v] = NoId]
    ELSE ck

\* the tasks' references once the store is ss: a dropped object is detached,
\* and the thread of /chart.json that holds it keeps it as it was
Refs(prs, ss) ==
    [p \in Procs |->
        IF prs[p].sess \in DOMAIN ss \cup {NoId, Detached} THEN prs[p]
        ELSE [prs[p] EXCEPT !.sess = Detached,
                            !.obj = IF prs[p].kind = "chart_json"
                                    THEN sessions[prs[p].sess] ELSE @]]

\* the session object task pr holds
Held(pr, ss) ==
    IF pr.sess = Detached THEN pr.obj ELSE ss[pr.sess]

(* ------------------------- handler continuations ----------------------- *)
\* An effect is what a task does from one await to the next: its new local
\* state (IdleProc when it has responded), the store, the response, the state
\* token that passed validation (0: none) and whether the response passes
\* SessionMiddleware (an unhandled exception does not).
Effect(pr, ss, o, acc, mw) ==
    [pr |-> pr, sessions |-> ss, out |-> o, acc |-> acc, mw |-> mw]

\* suspended in `await _get_openid_config(...)` on a cache miss, behind the
\* tasks that wait for the same fetch
Suspend(pr, ss) ==
    LET ahead == {q \in Procs : procs[q].pc = "disc_wait" /\ procs[q].key = pr.key}
    IN  Effect([pr EXCEPT !.pc = "disc_wait", !.turn = Cardinality(ahead)],
               ss, NoOut, 0, FALSE)

\* a store of the pending state that leaves the code verifier as it was
StoreStateOnly(ss, o, prov, state, code_verifier) ==
    IF o \notin DOMAIN ss THEN ss
    ELSE IF prov = "fhir"
    THEN [ss EXCEPT ![o].fhir_oauth_state = state]
    ELSE [ss EXCEPT ![o].jhe_oauth_state = state]

\* session_state.fhir_code_verifier = ..; session_state.fhir_oauth_state = ..
\* (app.py:299-300) and the same for jhe (app.py:427-428)
StorePending(ss, o, prov, state, code_verifier) ==
    IF o \notin DOMAIN ss THEN ss
    ELSE IF prov = "fhir"
    THEN [ss EXCEPT ![o].fhir_code_verifier = code_verifier,
                    ![o].fhir_oauth_state = state]
    ELSE [ss EXCEPT ![o].jhe_oauth_state = state,
                    ![o].jhe_code_verifier = code_verifier]

\* the handlers of /callback (app.py:304) and /jhe_callback (app.py:480)
Callbacks == {"fhir_callback", "jhe_callback"}

\* the provider a handler serves
ProvOf(kind) ==
    IF kind \in {"launch", "fhir_callback"} THEN "fhir" ELSE "jhe"

\* the checks of _openid_token_callback (app.py:446-455), in its order
Validate(error, code, state, check_state) ==
    IF error # "" THEN "provider_error"
    ELSE IF code = "" THEN "missing_code"
    ELSE IF state = 0 THEN "missing_state"
    ELSE IF state # check_state THEN "state_mismatch"
    ELSE "pass"

\* the status of the HTTPException each failed check raises (app.py:447-455)
StatusOf(v) == IF v = "provider_error" THEN 500 ELSE 400

\* the response of task pr: resp names the outcome, status the HTTP status
Response(pr, resp, status) ==
    [NoOut EXCEPT !.kind = pr.kind, !.resp = resp, !.status = status,
                  !.want = IF pr.kind \in Callbacks
                              /\ pr.sess # NoId
                           THEN Validate(pr.error, pr.code, pr.state, pr.check)
                           ELSE "none",
                  !.replay = pr.replay, !.hit = pr.hit, !.doc = pr.doc,
                  !.tokstatus = pr.tokstatus]

\* an exception that is no HTTPException: ServerErrorMiddleware answers 500
Unhandled(pr, ss, resp) ==
    Effect(IdleProc, ss, Response(pr, resp, 500), 0, FALSE)

\* _openid_authorize_redirect from its await on (app.py:384-401) and the
\* caller's stores: launch (app.py:299-301), jhe_login (app.py:427-429).
\* pr.doc is the document the await returned: reading its
\* authorization_endpoint (app.py:385) raises when it has none. The state
\* was drawn before the await (app.py:383), the verifier after it.
AuthorizeCont(pr, ss, dok) ==
    IF ~dok THEN Unhandled(pr, ss, "discovery_error")
    ELSE IF "authorization_endpoint" \notin pr.doc
    THEN Unhandled(pr, ss, "no_endpoint")
    ELSE LET code_verifier == pr.att
             o == [Response(pr, "authorize", 307) EXCEPT
                       !.urlstate = pr.att, !.urlchal = S256(code_verifier)]
         IN  Effect(IdleProc,
                    StorePending(ss, pr.sess, ProvOf(pr.kind), pr.att, code_verifier),
                    o, 0, TRUE)

\* _openid_token_callback from its first await to the token POST
\* (app.py:443-471). pr.doc is the document the await returned: reading its
\* token_endpoint (app.py:444) comes before the checks and raises when it
\* has none.
CallbackCont(pr, ss, dok) ==
    IF ~dok THEN Unhandled(pr, ss, "discovery_error")
    ELSE IF "token_endpoint" \notin pr.doc
    THEN Unhandled(pr, ss, "no_endpoint")
    ELSE LET v == Validate(pr.error, pr.code, pr.state, pr.check)
         IN  IF v = "pass"
             THEN Effect([pr EXCEPT !.pc = "tok_wait", !.tokurl = Config(pr.key)],
                         ss, NoOut, pr.state, FALSE)
             ELSE Effect(IdleProc, ss, Response(pr, v, StatusOf(v)), 0, TRUE)

\* a callback that clears the pending state and leaves the code verifier
ConsumeStateOnly(ss, o, prov) ==
    IF prov = "fhir"
    THEN [ss EXCEPT ![o].fhir_oauth_state = 0]
    ELSE [ss EXCEPT ![o].jhe_oauth_state = 0]

\* the clearing of the pending pair (app.py:318 and 320, app.py:494 and 496)
ConsumePending(ss, o, prov) ==
    IF prov = "fhir"
    THEN [ss EXCEPT ![o].fhir_oauth_state = 0, ![o].fhir_code_verifier = 0]
    ELSE [ss EXCEPT ![o].jhe_oauth_state = 0, ![o].jhe_code_verifier = 0]

\* session.fhir_oauth_state / session.jhe_oauth_state (app.py:317, 493)
PendingState(ss, o, prov) ==
    IF prov = "fhir" THEN ss[o].fhir_oauth_state ELSE ss[o].jhe_oauth_state

\* session.fhir_code_verifier / session.jhe_code_verifier (app.py:319, 495)
PendingVerifier(ss, o, prov) ==
    IF prov = "fhir" THEN ss[o].fhir_code_verifier ELSE ss[o].jhe_code_verifier

\* The tasks that waited for one fetch are woken by one future: the event
\* loop runs them one after the other in the order they began to wait, and
\* nothing else it schedules runs in between. Once task p of them has
\* resumed, the others are due.
Woken(prs, p) ==
    IF procs[p].pc \notin {"disc_ok", "disc_fail", "wake_ok", "wake_fail"}
    THEN prs
    ELSE [q \in Procs |->
            IF q # p /\ prs[q].key = procs[p].key
                     /\ prs[q].pc \in {"disc_ok", "disc_fail"}
            THEN [prs[q] EXCEPT
                      !.pc = IF @ = "disc_ok" THEN "wake_ok" ELSE "wake_fail"]
            ELSE prs[q]]

\* no task is due and none keeps the event loop's thread inside
\* jhe.get_user(): the event loop is free to run what comes next
Quiet ==
    \A q \in Procs : procs[q].pc \notin {"wake_ok", "wake_fail", "user_wait"}

\* one step of task p, whose locals were pr, with effect e and the cache c
\* it leaves
Commit(p, pr, e, c) ==
    /\ sessions' = e.sessions
    /\ cache' = c
    /\ procs' = Refs(Woken([procs EXCEPT ![p] = e.pr], p), e.sessions)
    /\ out' = e.out
    /\ revealed' = IF e.out.urlstate = 0 THEN revealed
                   ELSE Put(revealed, e.out.urlstate, Config(pr.key))
    /\ accepted' = IF e.acc = 0 THEN accepted
                   ELSE [accepted EXCEPT ![e.acc] = IF @ < 2 THEN @ + 1 ELSE @]
    /\ cookie' = IF e.mw THEN SendCookie(cookie, pr.v, pr.sid, pr.sid0)
                 ELSE cookie
    /\ owner' = [i \in DOMAIN e.sessions |->
                    IF i \in DOMAIN sessions THEN owner[i] ELSE pr.v]

\* a new request runs in the first free task slot
FreeSlot(p) ==
    /\ Quiet
    /\ procs[p].pc = "idle"
    /\ \A q \in Procs : q < p => procs[q].pc # "idle"

\* the cache once the entry of key k is the one used last (move_to_end)
Touch(c, k) ==
    [j \in DOMAIN c |->
        IF j = k THEN [c[k] EXCEPT !.use = 0]
        ELSE IF c[j].st # "none" /\ c[j].use < c[k].use
        THEN [c[j] EXCEPT !.use = @ + 1]
        ELSE c[j]]

\* the cache once a new entry for key k is in it: it is the one used last,
\* and with more than maxsize entries the least recently used is dropped.
\* An entry whose fetch is in flight was made by a task of this run and has
\* fewer than Cardinality(DiscKeys) entries after it: it is never the one
\* dropped.
Insert(c, k) ==
    [j \in DOMAIN c |->
        IF j = k THEN InFlight
        ELSE IF c[j].st = "none" THEN c[j]
        ELSE IF c[j].use + 1 >= maxsize THEN NoEntry
        ELSE [c[j] EXCEPT !.use = @ + 1]]

\* the cache once the entry of key k is removed from it
Drop(c, k) ==
    [j \in DOMAIN c |->
        IF j = k THEN NoEntry
        ELSE IF c[j].st # "none" /\ c[j].use > c[k].use
        THEN [c[j] EXCEPT !.use = @ - 1]
        ELSE c[j]]

\* alru_cache's lookup (app.py:356), a least-recently-used cache of maxsize
\* entries keyed by the argument: a finished entry is returned without
\* suspending; otherwise the caller waits for the one fetch of this key,
\* which a miss starts. A hit makes the entry the one used last.
Lookup(c, k) ==
    [hit |-> c[k].st = "ok",
     cache |-> IF c[k].st = "none" THEN Insert(c, k) ELSE Touch(c, k)]

\* `await _get_openid_config(pr.key)` by task p, which goes on with effect
\* cont if it need not wait
AwaitDiscovery(p, pr, ss, cont) ==
    LET lk == Lookup(cache, pr.key)
    IN  IF lk.hit THEN Commit(p, pr, cont, lk.cache)
        ELSE Commit(p, pr, Suspend(pr, ss), lk.cache)

(* ------------------------------ handlers ------------------------------- *)
\* GET /launch?iss=&launch= (app.py:286-301), up to its first suspension
launch(p, v, iss) ==
    /\ FreeSlot(p)
    /\ ntok < MaxTok
    /\ ntok' = ntok + 1
    /\ LET g == _get_session(sessions, cookie[v], TRUE)
           ss1 == [g.sessions EXCEPT ![g.obj].fhir_api = rstrip(iss)]
           pr == [IdleProc EXCEPT !.pc = "run", !.kind = "launch", !.v = v,
                      !.sess = g.obj, !.sid = g.sid, !.sid0 = cookie[v],
                      !.key = iss, !.att = ntok + 1, !.doc = cache[iss].doc]
       IN  AwaitDiscovery(p, pr, ss1, AuthorizeCont(pr, ss1, TRUE))

\* session.jhe_token = "" (app.py:415) on the object a task holds
ClearJheToken(ss, o) ==
    IF o \notin DOMAIN ss THEN ss ELSE [ss EXCEPT ![o].jhe_token = NoTok]

\* /jhe_login from _openid_authorize_redirect on (app.py:420-429), up to its
\* suspension: it draws the state and looks the discovery document up
JheAuthorize(p, pr0, ss) ==
    /\ ntok < MaxTok
    /\ ntok' = ntok + 1
    /\ LET pr == [pr0 EXCEPT !.pc = "run", !.att = ntok + 1,
                             !.doc = cache[JheKey].doc]
       IN  AwaitDiscovery(p, pr, ss, AuthorizeCont(pr, ss, TRUE))

\* a /jhe_login that trusts a stored token without asking the provider
JheLoginNoLiveCheck(p, v) ==
    /\ FreeSlot(p)
    /\ LET g == _get_session(sessions, cookie[v], TRUE)
           pr0 == [IdleProc EXCEPT !.pc = "run", !.kind = "jhe_login", !.v = v,
                      !.sess = g.obj, !.sid = g.sid, !.sid0 = cookie[v],
                      !.key = JheKey]
       IN  IF g.sessions[g.obj].jhe_token # NoTok
           THEN /\ ntok' = ntok
                /\ Commit(p, pr0,
                          Effect(IdleProc, g.sessions, Response(pr0, "home", 307), 0, TRUE),
                          cache)
           ELSE JheAuthorize(p, pr0, g.sessions)

\* GET /jhe_login (app.py:404-429), up to its first suspension or to its
\* call of jhe.get_user() (app.py:412), a synchronous request during which
\* the event loop runs nothing
jhe_login(p, v) ==
    /\ FreeSlot(p)
    /\ LET g == _get_session(sessions, cookie[v], TRUE)
           pr0 == [IdleProc EXCEPT !.pc = "run", !.kind = "jhe_login", !.v = v,
                      !.sess = g.obj, !.sid = g.sid, !.sid0 = cookie[v],
                      !.key = JheKey]
       IN  IF g.sessions[g.obj].jhe_token # NoTok
           THEN /\ ntok' = ntok
                /\ Commit(p, pr0,
                          Effect([pr0 EXCEPT !.pc = "user_wait"], g.sessions,
                                 NoOut, 0, FALSE),
                          cache)
           ELSE JheAuthorize(p, pr0, g.sessions)

\* an authorization attempt of provider prov that began after the state
\* token `since` was drawn is in flight on the object stored under o
Authorizing(o, prov, since) ==
    \E q \in Procs :
        /\ procs[q].kind \in {"launch", "jhe_login"}
        /\ ProvOf(procs[q].kind) = prov
        /\ procs[q].sess = o
        /\ procs[q].att > since

\* a state value no authorization attempt ever draws
Forged == MaxTok + 1

\* the state parameters a request can carry: none, a forged one, or one that
\* a redirect has shown to a browser (the tokens are unguessable)
States == {0, Forged} \cup DOMAIN revealed

\* the query strings of a callback request: once error is set no check reads
\* code or state (app.py:446-447), which are then left empty; without code
\* no check reads the state (app.py:448-449), which is then left empty
Queries ==
    {q \in [code : Codes, error : Errors, state : States] :
        /\ q.error # "" => (q.code = "" /\ q.state = 0)
        /\ q.code = "" => q.state = 0}

\* the query parameters of a callback request, as the handler reads them:
\* nothing reads them before _openid_token_callback's checks (app.py:446-455),
\* so a request that waits for discovery has them drawn when it resumes. A
\* state revealed only after the request began differs from the pending state
\* the request read when it began, as a forged one does.
WithParams(pr, code, error, state) ==
    [pr EXCEPT !.code = code, !.error = error, !.state = state,
               !.replay = IF state \in 1 .. MaxTok
                          THEN accepted[state] > 0 ELSE FALSE]

\* /callback and /jhe_callback up to the first suspension (app.py:313-334,
\* app.py:489-506)
CallbackStart(p, v, kind, code, error, state) ==
    /\ FreeSlot(p)
    /\ ntok' = ntok
    /\ LET g == _get_session(sessions, cookie[v], FALSE)
           prov == ProvOf(kind)
           pr0 == [IdleProc EXCEPT !.pc = "run", !.kind = kind, !.v = v,
                      !.sid = g.sid, !.sid0 = cookie[v]]
       IN  IF g.obj = NoId
           THEN LET pr == WithParams(pr0, code, error, state)
                IN  Commit(p, pr,
                           Effect(IdleProc, sessions, Response(pr, "no_session", 400), 0, TRUE),
                           cache)
           ELSE LET key == IF prov = "fhir" THEN sessions[g.obj].fhir_api ELSE JheKey
                    check_state == PendingState(sessions, g.obj, prov)
                    pr1 == [pr0 EXCEPT !.sess = g.obj, !.key = key,
                                !.check = check_state,
                                !.cv = PendingVerifier(sessions, g.obj, prov),
                                !.hit = cache[key].st = "ok",
                                !.doc = cache[key].doc,
                                !.late = /\ check_state # 0
                                         /\ Authorizing(g.obj, prov, check_state)]
                    pr == IF pr1.hit THEN WithParams(pr1, code, error, state)
                          ELSE pr1
                IN  /\ ~pr1.hit => (code = "" /\ error = "" /\ state = 0)
                    /\ LET ss1 == ConsumePending(sessions, g.obj, prov)
                       IN  AwaitDiscovery(p, pr, ss1, CallbackCont(pr, ss1, TRUE))

\* GET /callback?code=&state=&error= (app.py:304-334)
fhir_callback(p, v, code, error, state) ==
    CallbackStart(p, v, "fhir_callback", code, error, state)

\* GET /jhe_callback?code=&state=&error= (app.py:480-506)
jhe_callback(p, v, code, error, state) ==
    CallbackStart(p, v, "jhe_callback", code, error, state)

\* what a GET of a discovery URL can be answered: a 2xx response with a JSON
\* body (ok), an exception of client.get or of r.raise_for_status() (error:
\* no connection, or a status that is not 2xx), or a 2xx response whose body
\* is not JSON (malformed)
Answers == {"ok", "error", "malformed"}

\* the body of _get_openid_config (app.py:358-377) when its first GET is
\* answered a1 and its second, if it sends one, a2: the number of GETs sent,
\* the document returned (first, fallback) or "error", and the GET whose
\* exception is raised (0: none). r.json() (app.py:376) is outside both try
\* blocks and parses the last response received.
Resolve(a1, a2) ==
    IF a1 # "error"
    THEN IF a1 = "ok"
         THEN [attempts |-> 1, result |-> "first", raised |-> 0]
         ELSE [attempts |-> 1, result |-> "error", raised |-> 1]
    ELSE IF a2 = "error"
         THEN [attempts |-> 2, result |-> "error", raised |-> 1]
         ELSE IF a2 = "ok"
         THEN [attempts |-> 2, result |-> "fallback", raised |-> 0]
         ELSE [attempts |-> 2, result |-> "error", raised |-> 2]

\* a GET of the fetch of _get_openid_config(k) is answered a (app.py:361 for
\* the first, app.py:371 for the second), with the document doc when a is
\* "ok". After a first GET that raised, the fetch sends the second and waits
\* again, and the event loop serves other requests meanwhile. Otherwise the
\* fetch ends: with a document, or with an exception, which leaves no cache
\* entry; the wake-up of every waiter of k is scheduled, and runs before a
\* fetch begun after this one can end.
_get_openid_config(k, a, doc) ==
    LET first == cache[k].st = "inflight"
        retry == first /\ a = "error"
        r == IF first THEN Resolve(a, "none") ELSE Resolve("error", a)
    IN  /\ Quiet
        /\ cache[k].st \in {"inflight", "fallback"}
        /\ \A q \in Procs :
              procs[q].key = k => procs[q].pc \notin {"disc_ok", "disc_fail"}
        /\ a # "ok" => doc = {}
        /\ ~Fetchable(k) => a = "error"
        /\ cache' = IF retry THEN [cache EXCEPT ![k].st = "fallback"]
                     ELSE IF r.result = "error" THEN Drop(cache, k)
                     ELSE [cache EXCEPT ![k].st = "ok", ![k].doc = doc]
        /\ procs' = [p \in Procs |->
                        IF ~retry /\ procs[p].pc = "disc_wait" /\ procs[p].key = k
                        THEN [procs[p] EXCEPT
                                  !.pc = IF r.result = "error" THEN "disc_fail"
                                         ELSE "disc_ok"]
                        ELSE procs[p]]
        /\ out' = [NoOut EXCEPT
                      !.kind = "_get_openid_config",
                      !.resp = IF retry THEN "retry" ELSE r.result,
                      !.doc = doc,
                      !.disc = [a1 |-> IF first THEN a ELSE "error",
                                a2 |-> IF first THEN "none" ELSE a,
                                attempts |-> IF first THEN 1 ELSE 2,
                                raised |-> IF retry THEN 0 ELSE r.raised]]
        /\ UNCHANGED <<sessions, cookie, ntok, accepted, revealed, owner>>

\* task p is the next to resume from the discovery await: it is due, or the
\* first of the waiters of its fetch while no task is due
MayResume(p) ==
    /\ \/ procs[p].pc \in {"wake_ok", "wake_fail"}
       \/ Quiet /\ procs[p].pc \in {"disc_ok", "disc_fail"}
    /\ \A q \in Procs \ {p} :
          (/\ procs[q].key = procs[p].key
           /\ procs[q].pc \in {"disc_ok", "disc_fail", "wake_ok", "wake_fail"})
          => procs[q].turn > procs[p].turn

\* the locals of task p when it resumes from the discovery await with what
\* the fetch returned
Resumed(p) ==
    [procs[p] EXCEPT
        !.doc = IF procs[p].pc \in {"disc_ok", "wake_ok"}
                THEN cache[procs[p].key].doc ELSE {}]

\* /launch or /jhe_login resumes after the discovery await
authorize_resume(p) ==
    /\ MayResume(p)
    /\ procs[p].kind \in {"launch", "jhe_login"}
    /\ ntok' = ntok
    /\ Commit(p, Resumed(p),
              AuthorizeCont(Resumed(p), sessions,
                            procs[p].pc \in {"disc_ok", "wake_ok"}), cache)

\* /callback or /jhe_callback resumes after the discovery await
callback_resume(p, code, error, state) ==
    /\ MayResume(p)
    /\ procs[p].kind \in Callbacks
    /\ ntok' = ntok
    /\ LET pr == WithParams(Resumed(p), code, error, state)
       IN  Commit(p, pr,
                  CallbackCont(pr, sessions, pr.pc \in {"disc_ok", "wake_ok"}),
                  cache)

\* session.fhir_context = token_response (app.py:336)
StoreContext(ss, o, token_response) ==
    IF o \notin DOMAIN ss THEN ss
    ELSE [ss EXCEPT ![o].fhir_context = token_response]

\* session.fhir_context = token_response; session.fhir_token = .. (app.py:
\* 336-337) and session.jhe_token = .. (app.py:507)
StoreToken(ss, o, prov, token_response) ==
    IF o \notin DOMAIN ss THEN ss
    ELSE IF prov = "fhir"
    THEN [StoreContext(ss, o, token_response) EXCEPT
              ![o].fhir_token = token_response.access_token]
    ELSE [ss EXCEPT ![o].jhe_token = token_response.access_token]

\* the statuses the token endpoint may answer with: success, a redirect
\* (httpx follows none), a client error
TokenStatuses == {200, 302, 400}

\* the bodies it may send: text that r.json() fails on (json: "none"), or
\* JSON: an array, or an object with the keys `has`, whose access_token, if
\* it has one, is a token or the empty string
TokenBodies ==
    {[json |-> "none", has |-> {}, token |-> FALSE]}
    \cup [json : {"array"}, has : {{}, {"other"}}, token : {FALSE}]
    \cup {b \in [json : {"object"},
                 has : {{}, {"other"}, {"patient"}, {"access_token"},
                        {"access_token", "patient"}},
                 token : BOOLEAN] : b.token => "access_token" \in b.has}

\* r.json() (app.py:475) of the body the token endpoint of provider iss sent
\* to the request that carried state id
r_json(body, iss, id) ==
    Json(body.json, body.has,
         IF body.token THEN [iss |-> iss, id |-> id] ELSE NoTok)

\* a callback once the token endpoint has answered with the given status
\* and body: the rest of _openid_token_callback (app.py:472-477), then
\* fhir_callback (app.py:335-341) or jhe_callback up to its call of
\* jhe.get_user() (app.py:507-510). A status of 400 or more raises
\* (app.py:472-474), as does a body that does not parse (app.py:475).
\* /callback stores whatever was parsed as the launch context (app.py:336)
\* and raises on the next line when that has no access_token; /jhe_callback
\* raises before it stores anything when there is none (app.py:507), and
\* after it stored an empty one, with which get_jhe() returns None
\* (app.py:508-509).
CallbackFinish(pr, ss, status, body) ==
    IF status >= 400 \/ body.json = "none" THEN Unhandled(pr, ss, "token_error")
    ELSE LET token_response == r_json(body, pr.tokurl, pr.state)
         IN  IF pr.kind = "fhir_callback"
             THEN IF ~HasKey(token_response, "access_token")
                  THEN Unhandled(pr, StoreContext(ss, pr.sess, token_response),
                                 "no_access_token")
                  ELSE Effect(IdleProc,
                              StoreToken(ss, pr.sess, "fhir", token_response),
                              Response(pr, "ok", 307), 0, TRUE)
             ELSE IF ~HasKey(token_response, "access_token")
                  THEN Unhandled(pr, ss, "no_access_token")
                  ELSE IF token_response.access_token = NoTok
                  THEN Unhandled(pr, StoreToken(ss, pr.sess, "jhe", token_response),
                                 "no_client")
                  ELSE Effect([pr EXCEPT !.pc = "user_wait"],
                              StoreToken(ss, pr.sess, "jhe", token_response),
                              NoOut, 0, FALSE)

\* the token endpoint answers the POST of task p and the task runs on
token_response(p, status, body) ==
    /\ Quiet
    /\ procs[p].pc = "tok_wait"
    /\ ntok' = ntok
    /\ LET pr == [procs[p] EXCEPT !.tokstatus = status]
       IN  Commit(p, pr, CallbackFinish(pr, sessions, status, body), cache)

\* jhe.get_user() of task p returns (userOk) or raises. In /jhe_login
\* (app.py:411-418) a live token answers with the redirect to /, and an
\* exception clears the token and goes on to the authorization redirect; in
\* /jhe_callback (app.py:510-512) and in / (app.py:237-241, where
\* jhe.get_patient_by_external_id follows it at once) nothing catches the
\* exception.
get_user(p, userOk) ==
    /\ procs[p].pc = "user_wait"
    /\ IF procs[p].kind = "jhe_login"
       THEN IF userOk
            THEN /\ ntok' = ntok
                 /\ Commit(p, procs[p],
                           Effect(IdleProc, sessions,
                                  Response(procs[p], "home", 307), 0, TRUE),
                           cache)
            ELSE JheAuthorize(p, procs[p], ClearJheToken(sessions, procs[p].sess))
       ELSE /\ ntok' = ntok
            /\ Commit(p, procs[p],
                      IF ~userOk
                      THEN Unhandled(procs[p], sessions,
                                     IF procs[p].kind = "index" THEN "error"
                                     ELSE "user_error")
                      ELSE IF procs[p].kind = "index"
                      THEN Effect(IdleProc, sessions,
                                  Response(procs[p], "page", 200), 0, TRUE)
                      ELSE Effect(IdleProc, sessions,
                                  Response(procs[p], "ok", 307), 0, TRUE),
                      cache)

\* _logout(session) (app.py:162-165): sid is session.pop(SESSION_KEY, None)
_logout(ss, sid) == Pop(ss, sid)

\* a request of visitor v for a handler that is a plain function: the event
\* loop hands it, with the session dict of its cookie, to a worker thread
Dispatch(p, v, kind) ==
    /\ FreeSlot(p)
    /\ ntok' = ntok
    /\ LET pr == [IdleProc EXCEPT !.pc = "thread", !.kind = kind, !.v = v,
                      !.sid = cookie[v], !.sid0 = cookie[v]]
       IN  Commit(p, pr, Effect(pr, sessions, NoOut, 0, FALSE), cache)

\* GET /logout (app.py:279-283) is received
logout(p, v) == Dispatch(p, v, "logout")

\* the worker thread runs logout(request) (app.py:282-283), whatever the
\* event loop is doing: the record leaves the store and the id leaves the
\* request's session dict
logout_thread(p) ==
    /\ procs[p].pc = "thread"
    /\ procs[p].kind = "logout"
    /\ ntok' = ntok
    /\ Commit(p, procs[p],
              Effect([procs[p] EXCEPT !.pc = "thread_done", !.res = "home",
                                      !.sid = NoId],
                     _logout(sessions, procs[p].sid), NoOut, 0, FALSE),
              cache)

\* the event loop sends what the worker thread of task p returned or raised:
\* the redirect of /logout (app.py:283), whose emptied session clears the
\* cookie, or the answer of /chart.json
thread_response(p) ==
    /\ Quiet
    /\ procs[p].pc = "thread_done"
    /\ ntok' = ntok
    /\ Commit(p, procs[p],
              IF procs[p].res = "error"
              THEN Unhandled(procs[p], sessions, "error")
              ELSE Effect(IdleProc, sessions,
                          Response(procs[p], procs[p].res,
                                   IF procs[p].res = "home" THEN 307 ELSE 200),
                          0, TRUE),
              cache)

\* the /logout requests of the visitors Vs, served by the task slots Ps, and
\* what the worker threads and their responses do
ThreadStep(Ps, Vs) ==
    \/ \E p \in Ps, v \in Vs : logout(p, v)
    \/ \E p \in Procs : logout_thread(p)
    \/ \E p \in Procs : thread_response(p)

\* the requests and completions of the two authorization flows, for the
\* visitors Vs, with the requests served by the task slots Ps, the /launch
\* requests naming the issuers Is, the discovery GETs answered with the
\* documents Ds and the token requests with the responses Rs
Step(Ps, Vs, Is, Ds, Rs) ==
    \/ \E p \in Ps, v \in Vs, iss \in Is : launch(p, v, iss)
    \/ \E p \in Ps, v \in Vs : jhe_login(p, v)
    \/ \E p \in Ps, v \in Vs, q \in Queries :
          fhir_callback(p, v, q.code, q.error, q.state)
    \/ \E p \in Ps, v \in Vs, q \in Queries :
          jhe_callback(p, v, q.code, q.error, q.state)
    \/ \E k \in DiscKeys, a \in Answers, doc \in Ds \cup {{}} :
          (a = "ok" => doc \in Ds) /\ _get_openid_config(k, a, doc)
    \/ \E p \in Procs : authorize_resume(p)
    \/ \E p \in Procs, q \in Queries :
          callback_resume(p, q.code, q.error, q.state)
    \/ \E p \in Procs, r \in Rs : token_response(p, r.status, r.body)
    \/ \E p \in Procs, userOk \in BOOLEAN : get_user(p, userOk)

\* the documents of providers whose discovery is complete
WellFormed == {Endpoints}

\* the issuer as a /launch request names it when its URL ends with a slash
Slashed == {<<"b", "/">>}

\* the responses the token endpoint may send
TokenResponses == [status : TokenStatuses, body : TokenBodies]

\* the responses of a token endpoint that answers a request it accepts with
\* 200 and a token, and one it rejects with 400 and an error object
Plain ==
    {r \in TokenResponses :
        \/ r.status = 200 /\ r.body.token /\ "patient" \in r.body.has
        \/ r.status = 400 /\ r.body.json = "object" /\ r.body.has = {"other"}}

\* one browser, its requests overlapping at their await points, the
\* providers' discovery documents complete: /jhe_login and /jhe_callback
\* look up one key, /launch and /callback two. A /logout is received while
\* no other request is in flight, and the next request overlaps with it.
Next ==
    \/ Step(Procs, {"v1"}, Slashed, WellFormed, Plain)
    \/ ThreadStep({1}, {"v1"})

Spec == Init /\ [][Next]_vars

\* one browser, each request of the authorization flows served to its end
\* before the next begins, the token requests answered with responses of
\* every status and shape
NextTokens ==
    \/ Step({1}, {"v1"}, Slashed, WellFormed, TokenResponses)
    \/ ThreadStep({1}, {"v1"})

SpecTokens == Init /\ [][NextTokens]_vars

\* two browsers, each request served to its end before the next begins
NextVisitors ==
    \/ Step({1}, Visitors, Slashed, WellFormed, Plain)
    \/ ThreadStep({1}, Visitors)

SpecVisitors == Init /\ [][NextVisitors]_vars

(* -------------------------------- pages -------------------------------- *)
\* session.fhir_context is truthy (app.py:190, 195)
HasFhir(ss, o) == o # NoId /\ Truthy(ss[o].fhir_context)

\* session.get_jhe() is not None (app.py:118-123, 191, 234)
HasJhe(ss, o) == o # NoId /\ ss[o].jhe_token # NoTok

\* / from `jhe = _get_jhe(request.session)` on (app.py:234-248): the store
\* is looked up again; with a JHE client the handler calls jhe.get_user(),
\* which keeps the event loop's thread, and without it renders the page
IndexJhe(pr, ss) ==
    IF HasJhe(ss, _get_session(ss, pr.sid, FALSE).obj)
    THEN Effect([pr EXCEPT !.pc = "user_wait"], ss, NoOut, 0, FALSE)
    ELSE Effect(IdleProc, ss, Response(pr, "page", 200), 0, TRUE)

\* GET / (app.py:183-248), up to its first suspension. With a launch
\* context it reads the context's patient and access_token (app.py:196-202),
\* which raises when one is missing, and awaits the GET of the patient
\* (app.py:199); without one it goes on to the JHE part.
index(p, v) ==
    /\ FreeSlot(p)
    /\ ntok' = ntok
    /\ LET g == _get_session(sessions, cookie[v], FALSE)
           pr == [IdleProc EXCEPT !.pc = "run", !.kind = "index", !.v = v,
                     !.sess = g.obj, !.sid = g.sid, !.sid0 = cookie[v]]
       IN  Commit(p, pr,
                  IF ~HasFhir(sessions, g.obj) THEN IndexJhe(pr, sessions)
                  ELSE IF /\ HasKey(sessions[g.obj].fhir_context, "patient")
                          /\ HasKey(sessions[g.obj].fhir_context, "access_token")
                  THEN Effect([pr EXCEPT !.pc = "get1_wait"], sessions,
                              NoOut, 0, FALSE)
                  ELSE Unhandled(pr, sessions, "error"),
                  cache)

\* a GET that / awaits is answered: that of the patient (app.py:199-206) or
\* that of the practitioner (app.py:223-231). ok: the response has a 2xx
\* status and a JSON body, and what is read between this await and the next
\* (the name, the id_token of the launch context and its fhirUser claim,
\* app.py:207-222, 233) is there; otherwise the handler raises.
index_response(p, ok) ==
    /\ Quiet
    /\ procs[p].pc \in {"get1_wait", "get2_wait"}
    /\ ntok' = ntok
    /\ Commit(p, procs[p],
              IF ~ok THEN Unhandled(procs[p], sessions, "error")
              ELSE IF procs[p].pc = "get1_wait"
              THEN Effect([procs[p] EXCEPT !.pc = "get2_wait"], sessions,
                          NoOut, 0, FALSE)
              ELSE IndexJhe(procs[p], sessions),
              cache)

\* GET /chart.json (app.py:251-276) is received
chart_json(p, v) == Dispatch(p, v, "chart_json")

\* the worker thread of task p begins chart_json(request), whatever the
\* event loop is doing: `session = _get_session(request.session)`
\* (app.py:253). Without a record fhir and jhe stay None (app.py:254), the
\* guard of app.py:259 is falsy and fhir["patient"] (app.py:261) raises.
chart_json_session(p) ==
    /\ procs[p].pc = "thread"
    /\ procs[p].kind = "chart_json"
    /\ ntok' = ntok
    /\ LET g == _get_session(sessions, procs[p].sid, FALSE)
       IN  Commit(p, procs[p],
                  Effect(IF g.obj = NoId
                         THEN [procs[p] EXCEPT !.pc = "thread_done",
                                               !.res = "error"]
                         ELSE [procs[p] EXCEPT !.pc = "thread_fhir",
                                               !.sess = g.obj],
                         sessions, NoOut, 0, FALSE),
                  cache)

\* the thread reads `session.fhir_context` (app.py:256) of the object it
\* holds, as the event loop's tasks have left it by now
chart_json_fhir(p) ==
    /\ procs[p].pc = "thread_fhir"
    /\ ntok' = ntok
    /\ Commit(p, procs[p],
              Effect([procs[p] EXCEPT
                         !.pc = "thread_jhe",
                         !.fhir = Held(procs[p], sessions).fhir_context],
                     sessions, NoOut, 0, FALSE),
              cache)

\* the thread calls `session.get_jhe()` (app.py:257), which reads the
\* object's jhe_token as it is by now, and runs on to its end.
\* `if not fhir and jhe` (app.py:259) returns None only with a JHE client
\* and no launch context; otherwise fhir["patient"] is read (app.py:261),
\* which raises when fhir has no such key, and
\* jhe.get_patient_by_external_id is called (app.py:262), which raises when
\* jhe is None. netOk: the requests of the JHE client (app.py:262-265),
\* which the thread waits for, succeed; with a token that was emptied after
\* get_jhe() tested it (app.py:120-121) they do not.
chart_json_jhe(p, netOk) ==
    /\ procs[p].pc = "thread_jhe"
    /\ ntok' = ntok
    /\ LET fhir == procs[p].fhir
           jhe == Held(procs[p], sessions).jhe_token # NoTok
           res == IF ~Truthy(fhir) /\ jhe THEN "null"
                  ELSE IF ~HasKey(fhir, "patient") THEN "error"
                  ELSE IF ~jhe THEN "error"
                  ELSE IF netOk THEN "chart" ELSE "error"
       IN  Commit(p, procs[p],
                  Effect([procs[p] EXCEPT !.pc = "thread_done", !.res = res,
                                          !.fhir = EmptyCtx,
                                          !.obj = SessionState],
                         sessions, NoOut, 0, FALSE),
                  cache)

\* the requests of the pages
PageStep(Ps, Vs) ==
    \/ \E p \in Ps, v \in Vs : index(p, v)
    \/ \E p \in Procs, ok \in BOOLEAN : index_response(p, ok)
    \/ \E p \in Ps, v \in Vs : chart_json(p, v)
    \/ \E p \in Procs : chart_json_session(p)
    \/ \E p \in Procs : chart_json_fhir(p)
    \/ \E p \in Procs, netOk \in BOOLEAN : chart_json_jhe(p, netOk)

\* the token responses that leave launch contexts the pages tell apart: no
\* JSON, an empty array, an empty object, an object with a patient and no
\* access_token, and one with both
Contexts ==
    {r \in TokenResponses :
        /\ r.status = 200
        /\ r.body.has \in {{}, {"patient"}, {"access_token", "patient"}}
        /\ r.body.token <=> "access_token" \in r.body.has}

\* one browser, one request of the authorization flows at a time; the
\* requests of the pages and of /logout overlap with it and with each other
NextPages ==
    \/ Step({1}, {"v1"}, Slashed, WellFormed, Contexts)
    \/ ThreadStep(Procs, {"v1"})
    \/ PageStep(Procs, {"v1"})

SpecPages == Init /\ [][NextPages]_vars

(* ------------------------- session.py's store -------------------------- *)
\* The module session.py keeps a store of its own kind: the id comes from the
\* cookie or is the fixed "iframe", and a new record gets a new random id.
\* The model keeps its _sessions in `sessions`, the browsers' cookies in
\* `cookie`, and counts the ids drawn in `ntok`.

\* the fixed id of session.py:60 and session.py:81
IFRAME == "iframe"

\* Host headers, as sequences of their parts
Hosts == {<<"localhost", ":", "8000">>, <<"127.0.0.1">>, <<"example.org">>}

\* what a request shows to session.py: the iframe query parameter, the
\* sec-fetch-dest header and the host header
Requests == [iframe : {"", "1"}, dest : {"iframe", "document"}, host : Hosts]

\* host.partition(":")[0] (session.py:53-55): what precedes the first ":"
RECURSIVE partition0(_)
partition0(s) ==
    IF s = <<>> THEN <<>>
    ELSE IF Head(s) = ":" THEN <<>>
    ELSE <<Head(s)>> \o partition0(Tail(s))

\* SessionState._is_local_iframe(request) (session.py:49-55)
_is_local_iframe(r) ==
    IF r.iframe # "" THEN TRUE
    ELSE /\ r.dest = "iframe"
         /\ partition0(r.host) \in {<<"localhost">>, <<"127.0.0.1">>}

\* the ids secrets.token_urlsafe(16) returns (session.py:90), in the order
\* they are drawn: each differs from every other and from "iframe"
TokenIds == <<"id1", "id2", "id3", "id4">>

\* SessionState() of session.py (session.py:25-40, 92-93)
SessionStatePy ==
    [fhir_token |-> NoTok, fhir_oauth_session |-> "new",
     fhir_context |-> EmptyCtx, jhe_token |-> NoTok]

\* what a call of session.py did: the request r, the cookie id before the
\* call (sid0), the id it resolved the request to (resolved: session.py:76-85,
\* 59-62) and the record it returned (obj, NoId: None)
PyOut(kind, r, sid0, resolved, obj) ==
    [kind |-> kind, req |-> r, sid0 |-> sid0, resolved |-> resolved, obj |-> obj]

\* SessionState.get_session(request, make_new) (session.py:66-100)
get_session(v, r, make_new) ==
    LET session_id == IF _is_local_iframe(r) THEN IFRAME ELSE cookie[v]
    IN  /\ IF make_new
           THEN IF session_id # IFRAME
                THEN /\ ntok < MaxTok
                     /\ ntok' = ntok + 1
                     /\ cookie' = [cookie EXCEPT ![v] = TokenIds[ntok + 1]]
                     /\ sessions' = Put(sessions, TokenIds[ntok + 1], SessionStatePy)
                     /\ out' = PyOut("get_session", r, cookie[v], session_id,
                                     TokenIds[ntok + 1])
                ELSE /\ sessions' = Put(sessions, IFRAME, SessionStatePy)
                     /\ out' = PyOut("get_session", r, cookie[v], session_id, IFRAME)
                     /\ UNCHANGED <<ntok, cookie>>
           ELSE /\ out' = PyOut("get_session", r, cookie[v], session_id,
                                IF session_id \in DOMAIN sessions
                                THEN session_id ELSE NoId)
                /\ UNCHANGED <<ntok, cookie, sessions>>
        /\ UNCHANGED <<cache, procs, accepted, revealed, owner>>

\* SessionState.logout(request) (session.py:57-64)
SessionState_logout(v, r) ==
    LET local == _is_local_iframe(r)
        session_id == IF local THEN IFRAME ELSE cookie[v]
    IN  /\ cookie' = IF local THEN cookie ELSE [cookie EXCEPT ![v] = NoId]
        /\ sessions' = Pop(sessions, session_id)
        /\ out' = PyOut("SessionState.logout", r, cookie[v], session_id, NoId)
        /\ UNCHANGED <<cache, procs, ntok, accepted, revealed, owner>>

\* the calls of session.py's store by the requests of two browsers
NextSession ==
    \/ \E v \in Visitors, r \in Requests, make_new \in BOOLEAN :
          get_session(v, r, make_new)
    \/ \E v \in Visitors, r \in Requests : SessionState_logout(v, r)

SpecSession == Init /\ [][NextSession]_vars

(* --------------------------- token request ----------------------------- *)
\* settings.fhir_client_id, settings.jhe_client_id (app.py:41, 45)
ClientId(prov) == IF prov = "fhir" THEN "fhir_client_id" ELSE "jhe_client_id"

\* settings.fhir_redirect_uri, settings.jhe_redirect_uri (app.py:59-65), the
\* redirect_uri of the authorization redirects (app.py:295, 424)
RedirectUri(prov) == IF prov = "fhir" THEN "/callback" ELSE "/jhe_callback"

\* the form fields of the token POST a callback task pr sends (app.py:457-471):
\* params, updated with the caller's extra_params, which /callback gives
\* (app.py:330-333) and /jhe_callback does not (app.py:497-506)
TokenParams(pr) ==
    IF pr.kind = "fhir_callback"
    THEN [code |-> pr.code, grant_type |-> "authorization_code",
          client_id |-> ClientId("fhir"), code_verifier |-> pr.cv,
          redirect_uri |-> RedirectUri("fhir"), state |-> pr.state]
    ELSE [code |-> pr.code, grant_type |-> "authorization_code",
          client_id |-> ClientId("jhe"), code_verifier |-> pr.cv]

(* ------------------------- the first provider ------------------------- *)
\* one browser's /launch requests naming the issuers Is, with its /callback
\* and /logout requests, overlapping at their await points and in the worker
\* threads, the discovery GETs answered with documents of every shape
FhirStep(Is) ==
    \/ \E p \in Procs, iss \in Is : launch(p, "v1", iss)
    \/ \E p \in Procs, q \in Queries :
          fhir_callback(p, "v1", q.code, q.error, q.state)
    \/ \E k \in DiscKeys, a \in Answers, doc \in Documents :
          _get_openid_config(k, a, doc)
    \/ \E p \in Procs : authorize_resume(p)
    \/ \E p \in Procs, q \in Queries :
          callback_resume(p, q.code, q.error, q.state)
    \/ \E p \in Procs, r \in Plain : token_response(p, r.status, r.body)
    \/ ThreadStep(Procs, {"v1"})

\* the issuer named by two spellings
NextKeys == FhirStep(Issuers)

SpecKeys == Init /\ [][NextKeys]_vars

\* two different issuers
NextIssuers == FhirStep(TwoIssuers)

SpecIssuers == Init /\ [][NextIssuers]_vars

\* The app after 128 /launch requests that named 128 issuers, the first of
\* them <<"a">>, each served through its discovery, and a /logout: the cache
\* is full, the document of <<"a">> is its least recently used entry, the
\* store is empty and the browser holds no session id. The state tokens are
\* counted from here; none of those drawn before is pending in a record.
InitFull ==
    /\ sessions = [i \in {} |-> SessionState]
    /\ cookie = [v \in Visitors |-> NoId]
    /\ cache = [k \in DiscKeys |->
                   IF k = <<"a">>
                   THEN [Cached(Endpoints) EXCEPT !.use = maxsize - 1]
                   ELSE NoEntry]
    /\ procs = [p \in Procs |-> IdleProc]
    /\ ntok = 0
    /\ accepted = [s \in 1 .. MaxTok |-> 0]
    /\ revealed = [s \in {} |-> <<>>]
    /\ owner = [i \in {} |-> NoId]
    /\ out = NoOut

\* two different issuers, the cache full when the first request comes
SpecFull == InitFull /\ [][NextIssuers]_vars

(* ------------------------------- claims -------------------------------- *)
\* C1: a callback that found a session, reports no error, carries a code and
\* a non-empty state other than the pending state it read is answered with
\* the state-mismatch error, HTTP 400.
C1_StateMismatchReported ==
    out.want = "state_mismatch" =>
        (out.resp = "state_mismatch" /\ out.status = 400)

\* C2: no state token passes the checks of a callback twice; a callback that
\* bears, with its code, a state that had passed them before never passes
\* them: it is answered with the no-session error when it found no session,
\* and, when it found one and every callback that passed the checks has
\* succeeded (a record holds the token issued for its state), with the
\* state-mismatch error.
C2_AcceptedAtMostOnce ==
    /\ \A s \in 1 .. MaxTok : accepted[s] <= 1
    /\ (out.kind \in Callbacks /\ out.replay) =>
          /\ out.want # "pass"
          /\ out.want = "none" => out.resp = "no_session"
          /\ (/\ out.want = "state_mismatch"
              /\ \A s \in 1 .. MaxTok :
                    accepted[s] > 0 =>
                       \E o \in DOMAIN sessions :
                           s \in {sessions[o].fhir_token.id,
                                  sessions[o].jhe_token.id})
             => (out.resp = "state_mismatch" /\ out.status = 400)

\* C3: of two callback requests of one provider in flight together, at most
\* one has read a given non-empty pending state and at most one waits for the
\* token endpoint with a given state; while one waits there, another of that
\* provider that found the session and bears, with its code, a state that was
\* accepted is answered with the state-mismatch error.
C3_RacingCallbacks ==
    /\ \A p, q \in Procs :
          (p # q /\ procs[p].kind \in Callbacks /\ procs[q].kind = procs[p].kind)
          => /\ procs[p].check = 0 \/ procs[p].check # procs[q].check
             /\ ~(/\ procs[p].pc = "tok_wait" /\ procs[q].pc = "tok_wait"
                  /\ procs[p].state = procs[q].state)
    /\ (/\ out.kind \in Callbacks /\ out.replay /\ out.want # "none"
        /\ \E p \in Procs : procs[p].pc = "tok_wait" /\ procs[p].kind = out.kind)
       => out.resp = "state_mismatch"

\* C4: the step in which a callback finds its session leaves that provider's
\* pending state and code verifier empty in the stored record, and no later
\* step of a callback (after discovery, after the token request, passing or
\* failing) changes the pending pair of any stored record.
C4_PendingOneShot ==
    [][\A kind \in Callbacks :
          /\ (\/ \E p \in Procs : procs[p].pc = "idle" /\ procs'[p].kind = kind
              \/ (procs' = procs /\ out'.kind = kind /\ out'.want # "none"))
             => \A o \in DOMAIN sessions' :
                    /\ PendingState(sessions', o, ProvOf(kind)) = 0
                    /\ PendingVerifier(sessions', o, ProvOf(kind)) = 0
          /\ (\E p \in Procs :
                  /\ procs[p].kind = kind
                  /\ procs[p].pc \in {"disc_ok", "disc_fail", "wake_ok",
                                      "wake_fail", "tok_wait", "user_wait"}
                  /\ procs'[p].pc \notin {procs[p].pc, "wake_ok", "wake_fail"})
             => \A o \in DOMAIN sessions :
                    /\ o \in DOMAIN sessions'
                    /\ \A prov \in {"fhir", "jhe"} :
                          /\ PendingState(sessions', o, prov)
                                = PendingState(sessions, o, prov)
                          /\ PendingVerifier(sessions', o, prov)
                                = PendingVerifier(sessions, o, prov)
      ]_vars

\* C4 witness: a callback passed the checks with the pending state it read,
\* its token request failed, and the stored record's pending pair of that
\* provider is empty
C4_ConsumedAfterFailure ==
    /\ out.kind \in Callbacks /\ out.want = "pass" /\ out.resp = "token_error"
    /\ SESSION_ID \in DOMAIN sessions
    /\ PendingState(sessions, SESSION_ID, ProvOf(out.kind)) = 0
    /\ PendingVerifier(sessions, SESSION_ID, ProvOf(out.kind)) = 0

\* C5: a callback that found a session and whose parameters fail a check is
\* answered with the failure of the first check that fails, in the order
\* error, code, state present, state equal to the pending state, and with
\* that failure's HTTP status; nothing else is reported before it.
C5_FirstFailingCheckReported ==
    out.want \notin {"none", "pass"} =>
        (out.resp = out.want /\ out.status = StatusOf(out.want))

\* C6: when /launch or /jhe_login answers with the authorization redirect,
\* the record the store holds has, for that provider, a pending state equal
\* to the state in the URL and a pending verifier whose S256 challenge is the
\* code challenge in the URL.
C6_PersistThenRedirect ==
    out.resp = "authorize" =>
        /\ SESSION_ID \in DOMAIN sessions
        /\ PendingState(sessions, SESSION_ID, ProvOf(out.kind)) = out.urlstate
        /\ S256(PendingVerifier(sessions, SESSION_ID, ProvOf(out.kind)))
              = out.urlchal

\* C7: a callback that began after a newer authorization attempt of its
\* provider had obtained the session never passes the checks with the state
\* an earlier attempt left pending.
C7_StaleStateRejected ==
    \A p \in Procs : procs[p].late => procs[p].pc # "tok_wait"

\* C8: a request whose session cookie differs from the cookie of the visitor
\* whose request created a record does not work on that record, unless it
\* comes from that visitor.
C8_RecordPerVisitor ==
    \A p \in Procs :
        (/\ procs[p].sess \in DOMAIN sessions
         /\ procs[p].sid0 # cookie[owner[procs[p].sess]])
        => owner[procs[p].sess] = procs[p].v

\* C9: when /callback has answered with its redirect to / after storing the
\* first provider's token, the stored record holds a second-provider token.
C9_BridgeAfterCallback ==
    (out.kind = "fhir_callback" /\ out.resp = "ok" /\ SESSION_ID \in DOMAIN sessions)
        => sessions[SESSION_ID].jhe_token # NoTok

\* C10: whatever the store holds, _get_session with make_new returns a record
\* equal to a newly constructed SessionState.
C10_MakeNewIsFresh ==
    \A v \in Visitors :
        LET g == _get_session(sessions, cookie[v], TRUE)
        IN  g.sessions[g.obj] = SessionState

\* C11: once /logout has answered a visitor, _get_session without make_new
\* for that visitor's next request returns None, whatever requests of this
\* and of other visitors came before.
C11_LogoutThenNone ==
    [][\A p \in Procs :
          (thread_response(p) /\ procs[p].kind = "logout")
          => _get_session(sessions', cookie'[procs[p].v], FALSE).obj = NoId
      ]_vars

\* C12: /logout removes from the store the record that _get_session
\* resolves its request to, and its answer leaves the visitor's cookie
\* without a session id; a second /logout of the visitor right after it
\* would change neither the store nor the cookie.
C12_LogoutRemovesBoth ==
    [][\A p \in Procs :
          /\ logout_thread(p) =>
                _get_session(sessions, procs[p].sid, FALSE).obj
                    \notin DOMAIN sessions'
          /\ (thread_response(p) /\ procs[p].kind = "logout") =>
                /\ cookie'[procs[p].v] = NoId
                /\ _logout(sessions', cookie'[procs[p].v]) = sessions'
      ]_vars

\* C13: when the store holds no record for a visitor's request, _get_session
\* without make_new returns None, leaves the store as it was and puts no id
\* into the request's cookie; and the answer of / or /chart.json to a
\* request that found no record is a 200, not an error.
C13_NoSessionNotAuthenticated ==
    [][/\ \A v \in Visitors :
             LET g == _get_session(sessions, cookie[v], FALSE)
             IN  g.obj = NoId => (g.sessions = sessions /\ g.sid = cookie[v])
       /\ \A p \in Procs, v \in Visitors :
             (/\ index(p, v)
              /\ _get_session(sessions, cookie[v], FALSE).obj = NoId)
             => out'.status = 200
       /\ \A p \in Procs :
             (/\ thread_response(p) /\ procs[p].kind = "chart_json"
              /\ procs[p].sess = NoId)
             => out'.status = 200
      ]_vars

\* C14: a call of session.py's store resolves the request to the fixed id
\* "iframe" exactly when its sec-fetch-dest header is iframe and its host,
\* without the port, is localhost or 127.0.0.1; every other request is
\* resolved to the id its cookie holds, whatever its query parameters.
C14_IframeOnlyLocalHeader ==
    out.kind \in {"get_session", "SessionState.logout"} =>
        LET local == /\ out.req.dest = "iframe"
                     /\ partition0(out.req.host) \in {<<"localhost">>, <<"127.0.0.1">>}
        IN  /\ (out.resolved = IFRAME) <=> local
            /\ ~local => out.resolved = out.sid0

\* C16: a discovery fetch whose first GET fails in any way (exception, status
\* that is not 2xx, body that is not JSON) sends the root-path GET; it fails
\* only if both GETs fail, and the exception it then raises is the first
\* GET's.
C16_FallbackOnAnyFailure ==
    (out.kind = "_get_openid_config" /\ out.resp # "retry") =>
        /\ out.disc.a1 # "ok" => out.disc.attempts = 2
        /\ out.resp = "error" => (out.disc.a1 # "ok" /\ out.disc.a2 \notin {"ok", "none"})
        /\ out.resp = "error" => out.disc.raised = 1

\* C15: for every discovery key, a task waits for discovery only while the
\* one fetch of its key is in flight, so that callers arriving meanwhile
\* start no fetch of their own; the end of the fetch gives every task that
\* waited for it the same outcome; and once the key has a cached document no
\* step removes or replaces that document or starts a fetch for the key, and
\* a callback that goes on to the token request uses the token endpoint of
\* its key's document.
C15_SingleFlight ==
    [][\A k \in DiscKeys :
          /\ cache[k].st = "ok" =>
                (cache'[k].st = "ok" /\ cache'[k].doc = cache[k].doc)
          /\ \A p \in Procs :
                (procs'[p].pc = "disc_wait" /\ procs'[p].key = k)
                => cache'[k].st \in {"inflight", "fallback"}
          /\ (/\ cache[k].st \in {"inflight", "fallback"}
              /\ cache'[k].st \notin {"inflight", "fallback"}) =>
                \A p \in Procs :
                    (procs[p].pc = "disc_wait" /\ procs[p].key = k)
                    => procs'[p].pc = IF cache'[k].st = "ok" THEN "disc_ok"
                                      ELSE "disc_fail"
          /\ \A p \in Procs :
                (/\ procs'[p].key = k
                 /\ procs'[p].pc \in {"disc_ok", "wake_ok"}
                 /\ procs[p].pc \notin {"disc_ok", "wake_ok"})
                => out'.doc = cache'[k].doc
          /\ \A p \in Procs :
                (procs'[p].pc = "tok_wait" /\ procs'[p].key = k)
                => /\ cache'[k].st = "ok"
                   /\ procs'[p].doc = cache'[k].doc
                   /\ procs'[p].tokurl = Config(k)
      ]_vars

\* C17: the discovery cache has one entry per normalized issuer: of two keys
\* that differ only by trailing slashes, at most one is ever fetched or
\* cached, so that /launch and the /callback that follows it share an entry.
C17_KeyNormalized ==
    \A k1, k2 \in DiscKeys :
        (rstrip(k1) = rstrip(k2) /\ cache[k1].st # "none" /\ cache[k2].st # "none")
        => k1 = k2

\* C18: a callback whose token request is answered with a status outside
\* 200..299 fails on that response: it is answered with the error raised
\* for the response (its status, or an access_token it lacks or has empty),
\* never with what follows the store of the response's token.
C18_Non2xxFails ==
    (out.kind \in Callbacks /\ out.tokstatus # 0 /\ out.tokstatus \notin 200 .. 299)
        => out.resp \in {"token_error", "no_access_token", "no_client"}

\* C19: the token POST of every callback that waits for the token endpoint
\* has the fields grant_type = authorization_code, code = the code received,
\* client_id = the provider's client id, code_verifier = the verifier read
\* from the session, and redirect_uri = the redirect_uri of that provider's
\* authorization redirect.
C19_TokenRequestParams ==
    \A p \in Procs :
        procs[p].pc = "tok_wait" =>
            LET params == TokenParams(procs[p])
                prov == ProvOf(procs[p].kind)
            IN  /\ {"grant_type", "code", "client_id", "code_verifier",
                    "redirect_uri"} \subseteq DOMAIN params
                /\ params.grant_type = "authorization_code"
                /\ params.code = procs[p].code
                /\ params.client_id = ClientId(prov)
                /\ params.code_verifier = procs[p].cv
                /\ params.redirect_uri = RedirectUri(prov)

\* C20: the step in which a /callback that passed the checks handles a token
\* response it accepts, and answers with its redirect, leaves in its session
\* record a first-provider token equal to the access_token of that response
\* and a launch context equal to the whole response; and after every step the
\* token of every stored record is the access_token of its launch context.
C20_TokenAndContextTogether ==
    [][/\ \A p \in Procs :
             (/\ procs[p].pc = "tok_wait" /\ procs[p].kind = "fhir_callback"
              /\ procs'[p].pc = "idle"
              /\ out'.kind = "fhir_callback" /\ out'.resp = "ok"
              /\ procs[p].sess \in DOMAIN sessions)
             => \E body \in TokenBodies :
                    LET response ==
                            r_json(body, procs[p].tokurl, procs[p].state)
                    IN  /\ procs[p].sess \in DOMAIN sessions'
                        /\ sessions'[procs[p].sess].fhir_token
                              = response.access_token
                        /\ sessions'[procs[p].sess].fhir_context = response
       /\ \A o \in DOMAIN sessions' :
             sessions'[o].fhir_context.access_token = sessions'[o].fhir_token
      ]_vars

\* C21: a callback without session is answered 400; one whose parameters
\* lack the code or the state, or carry a state other than the pending one,
\* is answered 400; one that carries a provider error, or whose discovery or
\* token request fails, is answered 500; and only a callback whose
\* parameters pass every check and whose token request is answered with a
\* 2xx status ends in the redirect to /.
C21_FailuresSurfaced ==
    out.kind \in Callbacks =>
        /\ out.want = "none" => (out.resp = "no_session" /\ out.status = 400)
        /\ out.want \in {"missing_code", "missing_state", "state_mismatch"}
              => out.status = 400
        /\ out.want = "provider_error" => out.status = 500
        /\ out.resp \in {"discovery_error", "token_error"} => out.status = 500
        /\ out.resp = "ok" => (out.want = "pass" /\ out.tokstatus \in 200 .. 299)

\* C22: /jhe_login asks the provider about the token (get_user) exactly
\* when the record holds a second-provider token, and answers with the
\* redirect to / exactly when that call returns, leaving the store as it
\* was; when the call raises, the record the task holds is left without
\* token, and then, as with no stored token, the handler goes on to the
\* authorization redirect, which it awaits discovery for or answers with
\* (or fails on its discovery document).
C22_SkipOnlyWithLiveToken ==
    [][/\ \A p \in Procs, v \in Visitors :
             jhe_login(p, v) =>
                LET has == /\ SESSION_ID \in DOMAIN sessions
                           /\ sessions[SESSION_ID].jhe_token # NoTok
                IN  /\ has <=> procs'[p].pc = "user_wait"
                    /\ has => (sessions' = sessions /\ out'.resp = "none")
                    /\ ~has =>
                          /\ sessions'[SESSION_ID].jhe_token = NoTok
                          /\ \/ procs'[p].pc = "disc_wait"
                             \/ out'.resp \in {"authorize", "no_endpoint"}
       /\ \A p \in Procs, userOk \in BOOLEAN :
             (get_user(p, userOk) /\ procs[p].kind = "jhe_login") =>
                LET skipped == out'.kind = "jhe_login" /\ out'.resp = "home"
                IN  /\ skipped <=> userOk
                    /\ skipped => sessions' = sessions
                    /\ ~skipped =>
                          /\ procs[p].sess \in DOMAIN sessions
                                => sessions'[procs[p].sess].jhe_token = NoTok
                          /\ \/ procs'[p].pc = "disc_wait"
                             \/ out'.resp \in {"authorize", "no_endpoint"}
       /\ (out'.kind = "jhe_login" /\ out'.resp = "home") =>
             \E p \in Procs : procs[p].pc = "user_wait" /\ procs'[p].pc = "idle"
      ]_vars

\* C22 witness: /jhe_login has just answered with the redirect to /, and the
\* record holds the second-provider token it asked the provider about
C22_LoginSkipped ==
    /\ out.kind = "jhe_login" /\ out.resp = "home"
    /\ SESSION_ID \in DOMAIN sessions
    /\ sessions[SESSION_ID].jhe_token # NoTok

\* C23: a /callback that waits for the token endpoint posts its code and
\* verifier to the token endpoint of the issuer to which the authorization
\* redirect that carried its state was sent.
C23_TokenRequestToFlowIssuer ==
    \A p \in Procs :
        (procs[p].pc = "tok_wait" /\ procs[p].kind = "fhir_callback")
        => /\ procs[p].state \in DOMAIN revealed
           /\ procs[p].tokurl = revealed[procs[p].state]

\* C24: in every stored record that holds a first-provider token or a launch
\* context, fhir_api, the base URI to which / sends that token, is the issuer
\* whose token endpoint issued it.
C24_TokenStaysWithIssuer ==
    \A o \in DOMAIN sessions :
        /\ sessions[o].fhir_token # NoTok
              => sessions[o].fhir_token.iss = sessions[o].fhir_api
        /\ sessions[o].fhir_context.access_token # NoTok
              => sessions[o].fhir_context.access_token.iss = sessions[o].fhir_api

\* C25: a step in which a callback is answered with anything but its redirect
\* to / creates and removes no record and leaves fhir_token, fhir_context,
\* jhe_token and fhir_api of every stored record as they were; and when the
\* answer is that of a /jhe_callback whose call of get_user raised, no stored
\* record holds the token of that callback's token response.
C25_FailureKeepsCredentials ==
    [][(out'.kind \in Callbacks /\ out'.resp # "ok") =>
          /\ DOMAIN sessions' = DOMAIN sessions
          /\ \A o \in DOMAIN sessions :
                /\ sessions'[o].fhir_token = sessions[o].fhir_token
                /\ sessions'[o].fhir_context = sessions[o].fhir_context
                /\ sessions'[o].jhe_token = sessions[o].jhe_token
                /\ sessions'[o].fhir_api = sessions[o].fhir_api
          /\ \A p \in Procs :
                (procs[p].pc = "user_wait" /\ procs'[p].pc = "idle") =>
                   \A o \in DOMAIN sessions' :
                       sessions'[o].jhe_token
                          # TokenResponseOf(procs[p].tokurl, procs[p].state).access_token
      ]_vars

\* C26: in every stored record the pending state and the pending code
\* verifier of a provider are both empty or both those of one authorization
\* attempt; and the verifier a callback posts to the token endpoint is the
\* one of the attempt that drew the state it was accepted with, whose S256
\* challenge that attempt's authorization URL carried.
C26_PendingPairTogether ==
    /\ \A o \in DOMAIN sessions : \A prov \in {"fhir", "jhe"} :
          PendingVerifier(sessions, o, prov) = PendingState(sessions, o, prov)
    /\ \A p \in Procs :
          procs[p].pc = "tok_wait" =>
             /\ procs[p].state # 0
             /\ TokenParams(procs[p]).code_verifier = procs[p].state
             /\ S256(TokenParams(procs[p]).code_verifier) = S256(procs[p].check)

\* C26 witness: a callback posts the verifier of the attempt whose state it
\* carried while a later attempt of the same provider has its own state and
\* verifier pending in the record
C26_VerifierOfItsAttempt ==
    \E p \in Procs :
        /\ procs[p].pc = "tok_wait"
        /\ procs[p].cv = procs[p].state
        /\ procs[p].sess = SESSION_ID
        /\ SESSION_ID \in DOMAIN sessions
        /\ PendingState(sessions, SESSION_ID, ProvOf(procs[p].kind)) > procs[p].state
        /\ PendingVerifier(sessions, SESSION_ID, ProvOf(procs[p].kind))
              = PendingState(sessions, SESSION_ID, ProvOf(procs[p].kind))

\* the handler that acts in a step is of the given kinds: it answers, or it
\* suspends in one of its awaits
ActingKind(kinds) ==
    \/ out'.kind \in kinds
    \/ /\ out'.kind = "none"
       /\ \E p \in Procs :
             /\ procs'[p].kind \in kinds
             /\ procs'[p].pc \in {"disc_wait", "tok_wait", "user_wait"}
             /\ procs'[p].pc # procs[p].pc

\* C27: no step of /launch or /callback changes jhe_token, jhe_oauth_state
\* or jhe_code_verifier of a stored record, no step of /jhe_login or
\* /jhe_callback changes its fhir_token, fhir_context, fhir_api,
\* fhir_oauth_state or fhir_code_verifier, and none of these steps removes or
\* replaces a stored record.
C27_ProvidersIndependent ==
    [][/\ ActingKind({"launch", "fhir_callback"}) =>
             \A o \in DOMAIN sessions :
                 /\ o \in DOMAIN sessions'
                 /\ sessions'[o].jhe_token = sessions[o].jhe_token
                 /\ sessions'[o].jhe_oauth_state = sessions[o].jhe_oauth_state
                 /\ sessions'[o].jhe_code_verifier = sessions[o].jhe_code_verifier
       /\ ActingKind({"jhe_login", "jhe_callback"}) =>
             \A o \in DOMAIN sessions :
                 /\ o \in DOMAIN sessions'
                 /\ sessions'[o].fhir_token = sessions[o].fhir_token
                 /\ sessions'[o].fhir_context = sessions[o].fhir_context
                 /\ sessions'[o].fhir_api = sessions[o].fhir_api
                 /\ sessions'[o].fhir_oauth_state = sessions[o].fhir_oauth_state
                 /\ sessions'[o].fhir_code_verifier = sessions[o].fhir_code_verifier
      ]_vars

\* C27 witness: /jhe_login has answered with its authorization redirect on a
\* record that holds a first-provider token, which is still there beside the
\* pending second-provider state
C27_LoginKeepsFhirToken ==
    /\ out.kind = "jhe_login" /\ out.resp = "authorize"
    /\ SESSION_ID \in DOMAIN sessions
    /\ sessions[SESSION_ID].fhir_token # NoTok
    /\ sessions[SESSION_ID].fhir_context # EmptyCtx
    /\ sessions[SESSION_ID].jhe_oauth_state # 0

====
